---- MODULE Spec2Model ----
(***************************************************************************)
(* FHMP Flora - Site Characteristics (src/fhmp_app.py).                    *)
(*                                                                         *)
(* The Streamlit script is modelled as a state machine: one action per     *)
(* user interaction (a widget change or a button click, each of which is   *)
(* one complete synchronous run of the script).  State is the session      *)
(* state, the JSONL log file and the summary image directory.              *)
(*                                                                         *)
(* Text is a sequence of one-character strings, so that strip(), upper(),  *)
(* lower(), re.sub and the JSON encoding are computed, not assumed.        *)
(*                                                                         *)
(* Of the form, the fields that any validation rule, the submission id or  *)
(* the image name reads are kept: date, site, the "Other" entry of         *)
(* vegetation and dominant_species with their paired texts, the            *)
(* "Other feral" entry of animals with its paired text.  The remaining     *)
(* check boxes, radios and text areas (steps 3-6 and 8) are read by no     *)
(* rule and are left out; their steps are kept.                            *)
(***************************************************************************)
EXTENDS Integers, Sequences, FiniteSets, TLC

VARIABLES
    mode,               \* st.session_state.mode
    step,               \* st.session_state.step
    form,               \* st.session_state.form
    confirm_delete,     \* st.session_state.confirm_delete
    confirm_rec,        \* st.session_state.confirm_rec (None or a dict with _idx)
    confirm_delete_all, \* st.session_state.confirm_delete_all
    confirm_input,      \* st.session_state["confirm_delete_all_input"] (None: key absent)
    export,             \* st.session_state.export_record, export_image_path and
                        \* export_image_name (None before a Finish)
    log,                \* the file at JSONL_PATH: [exists, lines]
    images,             \* the names of the files in SUMMARY_DIR
    locked,             \* names in SUMMARY_DIR on which os.remove raises (environment)
    call,               \* the store operation the last run invoked, its argument and result
    tmp,                \* the file at JSONL_PATH + ".tmp": [exists, lines]
    proc                \* a call in progress, taken statement by statement
                        \* (delete_record_and_image_by_index or the Finish branch):
                        \* its position and local variables

vars == <<mode, step, form, confirm_delete, confirm_rec, confirm_delete_all,
          confirm_input, export, log, images, locked, call, tmp, proc>>

session == <<mode, step, form, confirm_delete, confirm_rec, confirm_delete_all,
             confirm_input, export>>

\* Python's None is the empty tuple; a present value x is <<x>>.
None == <<>>
Some(x) == <<x>>

(***************************************************************************)
(* Bounds of the model.                                                    *)
(***************************************************************************)
\* The log holds at most this many lines: Finish is disabled beyond it.
MaxLines == 2
\* The same for the wizard on its own, whose records vary more.
MaxWizardLines == 1
\* The longest log the store's operations are applied to.
MaxStoreLines == 3
\* The longest log a statement-by-statement delete is applied to.
MaxDeleteLines == 2
\* The longest log a statement-by-statement Finish starts from.
MaxFinishLines == 2
\* The longest site name collect_export_record is applied to, the worked
\* example aside.
MaxSiteLen == 4

(***************************************************************************)
(* Program constants.                                                      *)
(***************************************************************************)
LAST_FORM_STEP == 8
EXPORT_STEP == 9
SUMMARY_DIR == <<"s", "u", "m", "m", "a", "r", "i", "e", "s">>

(***************************************************************************)
(* Text helpers.                                                           *)
(***************************************************************************)
IsSpace(c) == c = " "

\* str.strip(): drop leading and trailing whitespace.
RECURSIVE LStrip(_)
LStrip(s) ==
    IF s = <<>> THEN <<>>
    ELSE IF IsSpace(Head(s)) THEN LStrip(Tail(s)) ELSE s

RECURSIVE RStrip(_)
RStrip(s) ==
    IF s = <<>> THEN <<>>
    ELSE IF IsSpace(s[Len(s)]) THEN RStrip(SubSeq(s, 1, Len(s) - 1)) ELSE s

Strip(s) == RStrip(LStrip(s))

\* str.strip("_"): drop leading and trailing underscores.
RECURSIVE LStripUnderscore(_)
LStripUnderscore(s) ==
    IF s = <<>> THEN <<>>
    ELSE IF Head(s) = "_" THEN LStripUnderscore(Tail(s)) ELSE s

RECURSIVE RStripUnderscore(_)
RStripUnderscore(s) ==
    IF s = <<>> THEN <<>>
    ELSE IF s[Len(s)] = "_" THEN RStripUnderscore(SubSeq(s, 1, Len(s) - 1)) ELSE s

StripUnderscore(s) == RStripUnderscore(LStripUnderscore(s))

UpperChar(c) ==
    CASE c = "d" -> "D" [] c = "e" -> "E" [] c = "l" -> "L" [] c = "t" -> "T"
      [] c = "p" -> "P" [] c = "n" -> "N" [] c = "g" -> "G"
      [] c = "a" -> "A" [] c = "b" -> "B"
      [] OTHER -> c

LowerChar(c) ==
    CASE c = "D" -> "d" [] c = "E" -> "e" [] c = "L" -> "l" [] c = "T" -> "t"
      [] c = "P" -> "p" [] c = "N" -> "n" [] c = "G" -> "g"
      [] c = "A" -> "a" [] c = "B" -> "b"
      [] OTHER -> c

Upper(s) == [i \in 1..Len(s) |-> UpperChar(s[i])]
Lower(s) == [i \in 1..Len(s) |-> LowerChar(s[i])]

EndsWith(s, suffix) ==
    /\ Len(s) >= Len(suffix)
    /\ SubSeq(s, Len(s) - Len(suffix) + 1, Len(s)) = suffix

\* \w of Python's re on the characters the model uses.
IsWordChar(c) ==
    c \in {"a", "b", "A", "B", "_", "0", "1", "2", "3", "4", "5", "6", "7", "8", "9",
           "N", "o", "r", "t", "h", "l", "c", "k"}

\* re.sub(r'\W', '_', s), without the +: every non-word character becomes a "_".
RECURSIVE ReSubEachNonWord(_, _)
ReSubEachNonWord(s, inRun) ==
    IF s = <<>> THEN <<>>
    ELSE IF IsWordChar(Head(s)) THEN <<Head(s)>> \o ReSubEachNonWord(Tail(s), FALSE)
    ELSE <<"_">> \o ReSubEachNonWord(Tail(s), TRUE)

\* re.sub(r'\W+', '_', s): each maximal run of non-word characters becomes one "_".
RECURSIVE ReSubNonWord(_, _)
ReSubNonWord(s, inRun) ==
    IF s = <<>> THEN <<>>
    ELSE IF IsWordChar(Head(s)) THEN <<Head(s)>> \o ReSubNonWord(Tail(s), FALSE)
    ELSE IF inRun THEN ReSubNonWord(Tail(s), TRUE)
    ELSE <<"_">> \o ReSubNonWord(Tail(s), TRUE)

\* str.replace('-', '')
RECURSIVE RemoveHyphens(_)
RemoveHyphens(s) ==
    IF s = <<>> THEN <<>>
    ELSE IF Head(s) = "-" THEN RemoveHyphens(Tail(s))
    ELSE <<Head(s)>> \o RemoveHyphens(Tail(s))

PNG == <<".", "p", "n", "g">>
DELETE == <<"D", "E", "L", "E", "T", "E">>

(***************************************************************************)
(* Inputs the user can give.                                               *)
(***************************************************************************)
Today == <<"2", "0", "2", "4", "-", "0", "3", "-", "0", "5">>

\* What can be typed into a free-text field: nothing, blanks only, text.
Texts == {<<>>, <<" ">>, <<"a">>}

\* Site names: empty, two that sanitise to the same id, one that differs.
Sites == {<<>>, <<"a">>, <<"a", "/">>, <<"b">>}

\* Site names for the wizard on its own: empty, blanks only, a name.
WizardSites == {<<>>, <<" ">>, <<"a">>}

Severities == 0..1

\* What can be typed into the delete-all confirmation box.
ConfirmTexts ==
    {<<>>, DELETE, <<"d", "e", "l", "e", "t", "e">>, <<" ">> \o DELETE,
     <<"D", "E", "L">>}

(***************************************************************************)
(* Session helpers.                                                        *)
(***************************************************************************)
default_form ==
    [date |-> Today,
     site |-> <<>>,
     vegetation |-> [Other |-> FALSE],
     vegetation_other |-> <<>>,
     dominant_species |-> [Other |-> FALSE],
     dominant_other |-> <<>>,
     animals |-> [Other_feral |-> 0],
     animals_other_text |-> <<>>]

(***************************************************************************)
(* Step validation.                                                        *)
(***************************************************************************)
\* validate_step with the .strip() calls left out.
validate_step_unstripped(f, s) ==
    /\ (s = 0) => f.site # <<>>
    /\ (s = 1) => ~(f.vegetation.Other /\ f.vegetation_other = <<>>)
    /\ (s = 2) => ~(f.dominant_species.Other /\ f.dominant_other = <<>>)
    /\ (s = 7) => ~(f.animals.Other_feral > 0 /\ f.animals_other_text = <<>>)

\* validate_step without the rule of step 7.
validate_step_without_animals(f, s) ==
    /\ (s = 0) => Strip(f.site) # <<>>
    /\ (s = 1) => ~(f.vegetation.Other /\ Strip(f.vegetation_other) = <<>>)
    /\ (s = 2) => ~(f.dominant_species.Other /\ Strip(f.dominant_other) = <<>>)

validate_step(f, s) ==
    /\ (s = 0) => Strip(f.site) # <<>>
    /\ (s = 1) => ~(f.vegetation.Other /\ Strip(f.vegetation_other) = <<>>)
    /\ (s = 2) => ~(f.dominant_species.Other /\ Strip(f.dominant_other) = <<>>)
    /\ (s = 7) => ~(f.animals.Other_feral > 0 /\ Strip(f.animals_other_text) = <<>>)

(***************************************************************************)
(* JSON.  A Python dict is a record; a line of the log is the text of one  *)
(* JSON value, kept as its kind and, for an object, its members in order:  *)
(* <<key, token>> with a string written in quotes and an integer as its    *)
(* digit.  "blank" is a line of whitespace, "bad" a line json.loads        *)
(* rejects, "scalar" a line holding a JSON value that is not an object.    *)
(***************************************************************************)
COLUMNS ==
    <<"submission_id", "date", "site", "vegetation", "dominant_species",
      "animals_other", "animals_other_text", "summary_image">>

IntColumns == {"animals_other"}

Quote(s) == <<"\"">> \o s \o <<"\"">>

Digit(n) == CASE n = 0 -> "0" [] n = 1 -> "1" [] n = 2 -> "2" [] n = 3 -> "3"

ParseDigit(c) == CASE c = "0" -> 0 [] c = "1" -> 1 [] c = "2" -> 2 [] c = "3" -> 3

EncodeValue(k, v) == IF k \in IntColumns THEN <<Digit(v)>> ELSE Quote(v)

DecodeToken(tok) ==
    IF Head(tok) = "\"" THEN SubSeq(tok, 2, Len(tok) - 1) ELSE ParseDigit(tok[1])

\* json.dumps(record, ensure_ascii=False): the members in insertion order.
RECURSIVE DumpMembers(_, _)
DumpMembers(record, keys) ==
    IF keys = <<>> THEN <<>>
    ELSE (IF Head(keys) \in DOMAIN record
          THEN << <<Head(keys), EncodeValue(Head(keys), record[Head(keys)])>> >>
          ELSE <<>>) \o DumpMembers(record, Tail(keys))

json_dumps(record) == [kind |-> "obj", pairs |-> DumpMembers(record, COLUMNS)]

\* The token of the last member with key k (json.loads keeps the last duplicate).
LastToken(pairs, k) ==
    LET I == {i \in 1..Len(pairs) : pairs[i][1] = k}
        m == CHOOSE i \in I : \A j \in I : j <= i
    IN  pairs[m][2]

IsStringToken(tok) == Head(tok) = "\""

\* The keys of the object a line holds.
KeysOf(line) == {line.pairs[i][1] : i \in 1..Len(line.pairs)}

\* json.loads(line) for a line that holds an object.
json_loads(line) ==
    [k \in KeysOf(line) |-> DecodeToken(LastToken(line.pairs, k))]

IsBlank(line) == line.kind = "blank"
\* json.loads(line) returns (does not raise).
Parses(line) == line.kind \in {"obj", "scalar"}
\* The value json.loads returns is a dict.
IsDict(line) == line.kind = "obj"

\* The Python value of a parsed line; a non-object value is kept opaque.
ParsedValue(line) == IF IsDict(line) THEN json_loads(line) ELSE [json_scalar |-> 0]

SeqRange(s) == {s[i] : i \in 1..Len(s)}

(***************************************************************************)
(* JSONL storage.                                                          *)
(***************************************************************************)
NoFile == [exists |-> FALSE, lines |-> <<>>]

\* write_jsonl_record opening the file with "w" in place of "a".
write_jsonl_record_truncating(record, file) ==
    [exists |-> TRUE, lines |-> <<json_dumps(record)>>]

write_jsonl_record(record, file) ==
    [exists |-> TRUE, lines |-> file.lines \o <<json_dumps(record)>>]

\* read_jsonl_records giving up at the first line that does not parse.
RECURSIVE ReadLinesStopAtBad(_)
ReadLinesStopAtBad(lines) ==
    IF lines = <<>> THEN <<>>
    ELSE IF IsBlank(Head(lines)) THEN ReadLinesStopAtBad(Tail(lines))
    ELSE IF Parses(Head(lines))
         THEN <<ParsedValue(Head(lines))>> \o ReadLinesStopAtBad(Tail(lines))
    ELSE <<>>

\* read_jsonl_records keeping only the lines that hold an object, as
\* load_jsonl_with_index does.
RECURSIVE ReadLinesDictsOnly(_)
ReadLinesDictsOnly(lines) ==
    IF lines = <<>> THEN <<>>
    ELSE (IF ~IsBlank(Head(lines)) /\ IsDict(Head(lines))
          THEN <<ParsedValue(Head(lines))>> ELSE <<>>) \o ReadLinesDictsOnly(Tail(lines))

RECURSIVE ReadLines(_)
ReadLines(lines) ==
    IF lines = <<>> THEN <<>>
    ELSE (IF ~IsBlank(Head(lines)) /\ Parses(Head(lines))
          THEN <<ParsedValue(Head(lines))>> ELSE <<>>) \o ReadLines(Tail(lines))

read_jsonl_records(file) == IF ~file.exists THEN <<>> ELSE ReadLines(file.lines)

\* enumerate(f): i is the zero-based position of the line in the file.
RECURSIVE LoadLines(_, _)
LoadLines(lines, i) ==
    IF lines = <<>> THEN <<>>
    ELSE (IF ~IsBlank(Head(lines)) /\ IsDict(Head(lines))
          THEN <<[k \in DOMAIN json_loads(Head(lines)) \cup {"_idx"} |->
                    IF k = "_idx" THEN i ELSE json_loads(Head(lines))[k]]>>
          ELSE <<>>) \o LoadLines(Tail(lines), i + 1)

\* load_jsonl_with_index numbering the lines from 1, as read_jsonl_records does.
load_jsonl_with_index_from_one(file) ==
    IF ~file.exists THEN <<>> ELSE LoadLines(file.lines, 1)

load_jsonl_with_index(file) == IF ~file.exists THEN <<>> ELSE LoadLines(file.lines, 0)

\* A line as a text-mode read with errors="replace" returns it, which is also
\* what writing it back stores: a line that is not valid UTF-8 (kind "raw")
\* comes back with U+FFFD in place of its bad bytes (kind "replaced").
Decoded(line) == IF line.kind = "raw" THEN [kind |-> "replaced", pairs |-> <<>>] ELSE line

\* src.readlines()
readlines(file) == [j \in 1..Len(file.lines) |-> Decoded(file.lines[j])]

\* target_obj.get("summary_image") or None, None too when the line does not parse
\* or is not a dict.
ImageOfLine(line) ==
    IF ~IsDict(line) \/ "summary_image" \notin KeysOf(line) THEN None
    ELSE LET tok == LastToken(line.pairs, "summary_image")
         IN  IF IsStringToken(tok) /\ DecodeToken(tok) # <<>>
             THEN Some(DecodeToken(tok)) ELSE None

\* The line's summary_image is a number other than 0: img_to_delete is that
\* number, and os.path.join(img_dir, img_to_delete), which is outside the
\* try, raises TypeError.
ImageJoinRaises(line) ==
    /\ IsDict(line)
    /\ "summary_image" \in KeysOf(line)
    /\ ~IsStringToken(LastToken(line.pairs, "summary_image"))
    /\ DecodeToken(LastToken(line.pairs, "summary_image")) # 0

\* The lines without the one at zero-based position idx.
WithoutLine(lines, idx) ==
    SubSeq(lines, 1, idx) \o SubSeq(lines, idx + 2, Len(lines))

\* os.remove(path) inside try/except: the file goes unless the removal raises.
RemoveImage(name, dir, lck) == IF name \in lck THEN dir ELSE dir \ {name}

\* delete_record_and_image_by_index without the target_idx < 0 test: Python
\* reads lines[-1], the last line, and no position equals -1 in the rewrite.
delete_record_unchecked_negative(target_idx, file, dir, lck) ==
    IF ~file.exists \/ target_idx >= Len(file.lines) \/ file.lines = <<>> THEN
        [ok |-> FALSE, img |-> None, raised |-> FALSE, file |-> file, dir |-> dir]
    ELSE
        LET lines == readlines(file)
            at == IF target_idx < 0 THEN Len(lines) ELSE target_idx + 1
            img_to_delete == ImageOfLine(lines[at])
            raises == ImageJoinRaises(lines[at])
        IN  [ok |-> ~raises,
             img |-> img_to_delete,
             raised |-> raises,
             file |-> [exists |-> TRUE,
                       lines |-> IF target_idx < 0 THEN lines
                                 ELSE WithoutLine(lines, target_idx)],
             dir |-> IF img_to_delete # None
                     THEN RemoveImage(img_to_delete[1], dir, lck) ELSE dir]

\* Returns (success, image_name) and the file and directory it leaves; with
\* raised, the call ends in an exception in place of a return value.
delete_record_and_image_by_index(target_idx, file, dir, lck) ==
    IF ~file.exists THEN
        [ok |-> FALSE, img |-> None, raised |-> FALSE, file |-> file, dir |-> dir]
    ELSE IF target_idx < 0 \/ target_idx >= Len(file.lines) THEN
        [ok |-> FALSE, img |-> None, raised |-> FALSE, file |-> file, dir |-> dir]
    ELSE
        LET lines == readlines(file)
            img_to_delete == ImageOfLine(lines[target_idx + 1])
            raises == ImageJoinRaises(lines[target_idx + 1])
        IN  [ok |-> ~raises,
             img |-> img_to_delete,
             raised |-> raises,
             file |-> [exists |-> TRUE, lines |-> WithoutLine(lines, target_idx)],
             dir |-> IF img_to_delete # None
                     THEN RemoveImage(img_to_delete[1], dir, lck) ELSE dir]

IsPng(name) == EndsWith(Lower(name), PNG)

\* delete_all_records_and_images counting a file before os.remove is tried.
delete_all_counting_before_remove(file, dir, lck) ==
    [deleted |-> Cardinality({n \in dir : IsPng(n)}),
     file |-> IF file.exists THEN [exists |-> TRUE, lines |-> <<>>] ELSE file,
     dir |-> dir \ {n \in dir : IsPng(n) /\ n \notin lck}]

\* Returns the count of images deleted and the file and directory it leaves.
delete_all_records_and_images(file, dir, lck) ==
    LET removed == {n \in dir : IsPng(n) /\ n \notin lck}
    IN  [deleted |-> Cardinality(removed),
         file |-> IF file.exists THEN [exists |-> TRUE, lines |-> <<>>] ELSE file,
         dir |-> dir \ removed]

(***************************************************************************)
(* Record collector.                                                       *)
(***************************************************************************)
OtherPrefix == <<"O", "t", "h", "e", "r", ":">>

submission_id(f) ==
    RemoveHyphens(f.date) \o <<"_">> \o StripUnderscore(ReSubNonWord(f.site, FALSE))

collect_export_record(f) ==
    [submission_id |-> submission_id(f),
     date |-> f.date,
     site |-> f.site,
     vegetation |->
        IF f.vegetation.Other /\ Strip(f.vegetation_other) # <<>>
        THEN OtherPrefix \o Strip(f.vegetation_other) ELSE <<>>,
     dominant_species |->
        IF f.dominant_species.Other /\ Strip(f.dominant_other) # <<>>
        THEN OtherPrefix \o Strip(f.dominant_other) ELSE <<>>,
     animals_other |-> f.animals.Other_feral,
     animals_other_text |-> f.animals_other_text,
     summary_image |-> <<>>]

(***************************************************************************)
(* The calls a run makes into the store, as the last run left them.        *)
(***************************************************************************)
NoCall == [op |-> "none"]

\* reset_to_splash without the line that replaces the form.
reset_to_splash_keeping_form ==
    /\ mode' = "splash"
    /\ step' = 0
    /\ form' = form

reset_to_splash ==
    /\ mode' = "splash"
    /\ step' = 0
    /\ form' = default_form

(***************************************************************************)
(* Initial state: init_session() on an empty data directory.               *)
(***************************************************************************)
\* A file in SUMMARY_DIR that is not a summary image.
OtherFile == <<"n", "o", "t", "e", "s">>

InitSession ==
    /\ mode = "splash"
    /\ step = 0
    /\ form = default_form
    /\ confirm_delete = FALSE
    /\ confirm_rec = None
    /\ confirm_delete_all = FALSE
    /\ confirm_input = None
    /\ export = None
    /\ call = NoCall

\* No delete_record_and_image_by_index call is in progress.
NoProc == [pc |-> "idle", target_idx |-> 0, lines |-> <<>>, i |-> 0,
           img_to_delete |-> None, raises |-> FALSE, original |-> <<>>]

Init ==
    /\ InitSession
    /\ log = NoFile
    /\ images = {}
    /\ locked = {}
    /\ tmp = NoFile
    /\ proc = NoProc

(***************************************************************************)
(* mode == "splash"                                                        *)
(***************************************************************************)
CreateNew ==
    /\ mode = "splash"
    /\ mode' = "new"
    /\ step' = 0
    /\ call' = NoCall
    /\ UNCHANGED <<form, confirm_delete, confirm_rec, confirm_delete_all,
                   confirm_input, export, log, images, locked, tmp, proc>>

\* The view page renders the delete-all dialog, and with it the text input
\* (empty), when confirm_delete_all is still set.
ViewPrevious ==
    /\ mode = "splash"
    /\ mode' = "view"
    /\ confirm_input' = IF confirm_delete_all THEN Some(<<>>) ELSE None
    /\ call' = NoCall
    /\ UNCHANGED <<step, form, confirm_delete, confirm_rec, confirm_delete_all,
                   export, log, images, locked, tmp, proc>>

(***************************************************************************)
(* mode == "view"                                                          *)
(***************************************************************************)
\* The single-delete dialog is rendered.
SingleDialogShown == mode = "view" /\ confirm_delete /\ confirm_rec # None

\* The delete-all dialog is rendered.
AllDialogShown == mode = "view" /\ confirm_delete_all

ok_to_delete ==
    /\ confirm_input # None
    /\ Upper(Strip(confirm_input[1])) = DELETE

ConfirmDeleteYes ==
    /\ SingleDialogShown
    /\ LET r == delete_record_and_image_by_index(confirm_rec[1]._idx, log, images, locked)
       IN  /\ log' = r.file
           /\ images' = r.dir
           /\ call' = [op |-> "delete_record_and_image_by_index",
                       target_idx |-> confirm_rec[1]._idx, ok |-> r.ok, img |-> r.img,
                          raised |-> r.raised]
           \* an exception leaves the script before the flags are cleared
           /\ confirm_delete' = (r.raised /\ confirm_delete)
           /\ confirm_rec' = IF r.raised THEN confirm_rec ELSE None
    /\ UNCHANGED <<mode, step, form, confirm_delete_all, confirm_input, export, locked, tmp, proc>>

ConfirmDeleteNo ==
    /\ SingleDialogShown
    /\ confirm_delete' = FALSE
    /\ confirm_rec' = None
    /\ call' = NoCall
    /\ UNCHANGED <<mode, step, form, confirm_delete_all, confirm_input, export,
                   log, images, locked, tmp, proc>>

TypeConfirmText(T) ==
    /\ AllDialogShown
    /\ \E t \in T : confirm_input' = Some(t)
    /\ confirm_input' # confirm_input
    /\ call' = NoCall
    /\ UNCHANGED <<mode, step, form, confirm_delete, confirm_rec, confirm_delete_all,
                   export, log, images, locked, tmp, proc>>

ConfirmDeleteAllYes ==
    /\ AllDialogShown
    /\ ok_to_delete
    /\ LET r == delete_all_records_and_images(log, images, locked)
       IN  /\ log' = r.file
           /\ images' = r.dir
           /\ call' = [op |-> "delete_all_records_and_images", deleted |-> r.deleted]
    /\ confirm_delete_all' = FALSE
    /\ confirm_input' = None
    /\ UNCHANGED <<mode, step, form, confirm_delete, confirm_rec, export, locked, tmp, proc>>

ConfirmDeleteAllNo ==
    /\ AllDialogShown
    /\ confirm_delete_all' = FALSE
    /\ confirm_input' = None
    /\ call' = NoCall
    /\ UNCHANGED <<mode, step, form, confirm_delete, confirm_rec, export,
                   log, images, locked, tmp, proc>>

\* "Delete record & image" deleting at once, with no confirmation.
OpenConfirmSingleImmediate ==
    /\ mode = "view"
    /\ \E sel_rec \in SeqRange(load_jsonl_with_index(log)) :
          LET r == delete_record_and_image_by_index(sel_rec._idx, log, images, locked)
          IN  /\ log' = r.file
              /\ images' = r.dir
              /\ call' = [op |-> "delete_record_and_image_by_index",
                          target_idx |-> sel_rec._idx, ok |-> r.ok, img |-> r.img,
                          raised |-> r.raised]
    /\ UNCHANGED <<mode, step, form, confirm_delete, confirm_rec, confirm_delete_all,
                   confirm_input, export, locked, tmp, proc>>

\* "Delete record & image": opens the confirmation for the selected record.
OpenConfirmSingle ==
    /\ mode = "view"
    /\ \E sel_rec \in SeqRange(load_jsonl_with_index(log)) :
          /\ confirm_delete' = TRUE
          /\ confirm_rec' = Some(sel_rec)
    /\ call' = NoCall
    /\ UNCHANGED <<mode, step, form, confirm_delete_all, confirm_input, export,
                   log, images, locked, tmp, proc>>

\* "Delete ALL records & images": opens the confirmation; the rerun renders
\* the (empty) text input unless it is there already.
OpenConfirmAll ==
    /\ mode = "view"
    /\ confirm_delete_all' = TRUE
    /\ confirm_input' = IF confirm_delete_all THEN confirm_input ELSE Some(<<>>)
    /\ call' = NoCall
    /\ UNCHANGED <<mode, step, form, confirm_delete, confirm_rec, export,
                   log, images, locked, tmp, proc>>

\* "Back to home".  The text input is not rendered outside the view page and
\* its widget state goes with it; the confirmation flags stay as they are.
BackToHome ==
    /\ mode = "view"
    /\ reset_to_splash
    /\ confirm_input' = None
    /\ call' = NoCall
    /\ UNCHANGED <<confirm_delete, confirm_rec, confirm_delete_all, export,
                   log, images, locked, tmp, proc>>

(***************************************************************************)
(* mode == "new": the widgets of each step                                 *)
(***************************************************************************)
EditForm(s, f) ==
    /\ mode = "new"
    /\ step = s
    /\ f # form
    /\ form' = f
    /\ call' = NoCall
    /\ UNCHANGED <<mode, step, confirm_delete, confirm_rec, confirm_delete_all,
                   confirm_input, export, log, images, locked, tmp, proc>>

\* The Site field drawn on every content step, not only on step 0.
SetSiteOnAnyStep(S) ==
    \E v \in S : \E s \in 0..LAST_FORM_STEP : EditForm(s, [form EXCEPT !.site = v])

SetSite(S) == \E v \in S : EditForm(0, [form EXCEPT !.site = v])

SetVegetationOther ==
    \E b \in BOOLEAN : EditForm(1, [form EXCEPT !.vegetation.Other = b])

SetVegetationOtherText(T) ==
    /\ form.vegetation.Other
    /\ \E t \in T : EditForm(1, [form EXCEPT !.vegetation_other = t])

SetDominantOther ==
    \E b \in BOOLEAN : EditForm(2, [form EXCEPT !.dominant_species.Other = b])

SetDominantOtherText(T) ==
    /\ form.dominant_species.Other
    /\ \E t \in T : EditForm(2, [form EXCEPT !.dominant_other = t])

SetAnimalsOther ==
    \E n \in Severities : EditForm(7, [form EXCEPT !.animals.Other_feral = n])

SetAnimalsOtherText(T) ==
    /\ form.animals.Other_feral > 0
    /\ \E t \in T : EditForm(7, [form EXCEPT !.animals_other_text = t])

(***************************************************************************)
(* mode == "new": navigation                                               *)
(***************************************************************************)
\* "Back" drawn with disabled=not is_ok, as "Next" is.
BackWhenValid ==
    /\ mode = "new"
    /\ step <= LAST_FORM_STEP
    /\ validate_step(form, step)
    /\ IF step = 0
       THEN reset_to_splash
       ELSE /\ step' = (IF step - 1 > 0 THEN step - 1 ELSE 0)
            /\ UNCHANGED <<mode, form>>
    /\ call' = NoCall
    /\ UNCHANGED <<confirm_delete, confirm_rec, confirm_delete_all, confirm_input,
                   export, log, images, locked, tmp, proc>>

Back ==
    /\ mode = "new"
    /\ step <= LAST_FORM_STEP
    /\ IF step = 0
       THEN reset_to_splash
       ELSE /\ step' = (IF step - 1 > 0 THEN step - 1 ELSE 0)
            /\ UNCHANGED <<mode, form>>
    /\ call' = NoCall
    /\ UNCHANGED <<confirm_delete, confirm_rec, confirm_delete_all, confirm_input,
                   export, log, images, locked, tmp, proc>>

\* "Next" drawn on the last content step too.
NextStepPastLast ==
    /\ mode = "new"
    /\ step <= LAST_FORM_STEP
    /\ validate_step(form, step)
    /\ step' = step + 1
    /\ call' = NoCall
    /\ UNCHANGED <<mode, form, confirm_delete, confirm_rec, confirm_delete_all,
                   confirm_input, export, log, images, locked, tmp, proc>>

\* "Next" without disabled=not is_ok.
NextStepAlwaysEnabled ==
    /\ mode = "new"
    /\ step < LAST_FORM_STEP
    /\ step' = step + 1
    /\ call' = NoCall
    /\ UNCHANGED <<mode, form, confirm_delete, confirm_rec, confirm_delete_all,
                   confirm_input, export, log, images, locked, tmp, proc>>

NextStep ==
    /\ mode = "new"
    /\ step < LAST_FORM_STEP
    /\ validate_step(form, step)
    /\ step' = step + 1
    /\ call' = NoCall
    /\ UNCHANGED <<mode, form, confirm_delete, confirm_rec, confirm_delete_all,
                   confirm_input, export, log, images, locked, tmp, proc>>

\* image_name taken to be image_path, the name joined to SUMMARY_DIR.
image_name_with_directory(record) == <<"s", "/">> \o record.submission_id \o PNG

image_name(record) == record.submission_id \o PNG

\* os.path.join(SUMMARY_DIR, image_name)
image_path(name) == SUMMARY_DIR \o <<"/">> \o name

\* What Finish stores in the session for the export page.
export_data(saved) ==
    [record |-> saved,
     image_path |-> image_path(saved.summary_image),
     image_name |-> saved.summary_image]

\* "Finish & Export" when draw_summary_image and write_jsonl_record return.
Finish(cap) ==
    /\ mode = "new"
    /\ step = LAST_FORM_STEP
    /\ validate_step(form, step)
    /\ Len(log.lines) < cap
    /\ LET record == collect_export_record(form)
           saved == [record EXCEPT !.summary_image = image_name(record)]
       IN  /\ images' = images \cup {image_name(record)}
           /\ log' = write_jsonl_record(saved, log)
           /\ export' = Some(export_data(saved))
           /\ call' = [op |-> "write_jsonl_record", record |-> saved]
    /\ step' = EXPORT_STEP
    /\ UNCHANGED <<mode, form, confirm_delete, confirm_rec, confirm_delete_all,
                   confirm_input, locked, tmp, proc>>

\* "Finish & Export" catching the exception of draw_summary_image and going on.
FinishRenderSwallowed ==
    /\ mode = "new"
    /\ step = LAST_FORM_STEP
    /\ validate_step(form, step)
    /\ Len(log.lines) < MaxLines
    /\ LET record == collect_export_record(form)
           saved == [record EXCEPT !.summary_image = image_name(record)]
       IN  /\ log' = write_jsonl_record(saved, log)
           /\ export' = Some(export_data(saved))
    /\ call' = [op |-> "draw_summary_image_raised"]
    /\ step' = EXPORT_STEP
    /\ UNCHANGED <<mode, form, confirm_delete, confirm_rec, confirm_delete_all,
                   confirm_input, images, locked, tmp, proc>>

\* "Finish & Export" when img.save raises: the exception leaves the script
\* before the record is completed; the image file may have been created.
FinishRenderFails ==
    /\ mode = "new"
    /\ step = LAST_FORM_STEP
    /\ validate_step(form, step)
    /\ LET record == collect_export_record(form)
       IN  images' \in {images, images \cup {image_name(record)}}
    /\ call' = [op |-> "draw_summary_image_raised"]
    /\ UNCHANGED <<mode, step, form, confirm_delete, confirm_rec, confirm_delete_all,
                   confirm_input, export, log, locked, tmp, proc>>

\* "Done (Back to home)" on the export page.
Done ==
    /\ mode = "new"
    /\ step = EXPORT_STEP
    /\ reset_to_splash
    /\ call' = NoCall
    /\ UNCHANGED <<confirm_delete, confirm_rec, confirm_delete_all, confirm_input,
                   export, log, images, locked, tmp, proc>>

(***************************************************************************)
(* The application: the splash page, the wizard and the view page, with    *)
(* the "Other" widgets of the wizard left as they are.                     *)
(***************************************************************************)
Next ==
    \/ CreateNew
    \/ ViewPrevious
    \/ ConfirmDeleteYes
    \/ ConfirmDeleteNo
    \/ TypeConfirmText(ConfirmTexts)
    \/ ConfirmDeleteAllYes
    \/ ConfirmDeleteAllNo
    \/ OpenConfirmSingle
    \/ OpenConfirmAll
    \/ BackToHome
    \/ SetSite(Sites)
    \/ Back
    \/ NextStep
    \/ Finish(MaxLines)
    \/ FinishRenderFails
    \/ Done

Spec == Init /\ [][Next]_vars

(***************************************************************************)
(* The wizard with every widget that a validation rule reads, without the  *)
(* view page.                                                              *)
(***************************************************************************)
NextWizard ==
    \/ CreateNew
    \/ SetSite(WizardSites)
    \/ SetVegetationOther
    \/ SetVegetationOtherText(Texts)
    \/ SetDominantOther
    \/ SetDominantOtherText(Texts)
    \/ SetAnimalsOther
    \/ SetAnimalsOtherText(Texts)
    \/ Back
    \/ NextStep
    \/ Finish(MaxWizardLines)
    \/ FinishRenderFails
    \/ Done

SpecWizard == Init /\ [][NextWizard]_vars

(***************************************************************************)
(* The store on its own: its operations applied, with any argument, to a   *)
(* log that may hold blank, malformed and non-object lines and to an       *)
(* image directory that may hold other files and files that cannot be      *)
(* removed.                                                                *)
(***************************************************************************)
FormA == [default_form EXCEPT !.site = <<"a">>]
FormB == [default_form EXCEPT !.site = <<"b">>, !.animals.Other_feral = 1,
                              !.animals_other_text = <<"a">>]

Saved(f) ==
    [collect_export_record(f) EXCEPT !.summary_image = image_name(collect_export_record(f))]

BlankLine == [kind |-> "blank", pairs |-> <<>>]
BadLine == [kind |-> "bad", pairs |-> <<>>]
ScalarLine == [kind |-> "scalar", pairs |-> <<>>]
\* An object written by hand, with no summary_image member.
BareLine == [kind |-> "obj", pairs |-> << <<"site", Quote(<<"b">>)>> >>]

SampleLines == {BlankLine, BadLine, ScalarLine, BareLine, json_dumps(Saved(FormA))}

StoreRecords == {Saved(FormA), Saved(FormB)}

UpperPngFile == <<"x", ".", "P", "N", "G">>

SampleImages == {image_name(Saved(FormA)), UpperPngFile, OtherFile}

RECURSIVE SeqsUpTo(_, _)
SeqsUpTo(S, n) ==
    IF n = 0 THEN {<<>>}
    ELSE LET shorter == SeqsUpTo(S, n - 1)
         IN  shorter \cup {Append(q, x) : q \in shorter, x \in S}

InitStore ==
    /\ InitSession
    /\ log \in {NoFile} \cup
               {[exists |-> TRUE, lines |-> l] : l \in SeqsUpTo(SampleLines, MaxStoreLines)}
    /\ images \in SUBSET SampleImages
    /\ locked \in SUBSET (images \ {OtherFile})
    /\ tmp = NoFile
    /\ proc = NoProc

StoreWrite ==
    /\ Len(log.lines) < MaxStoreLines
    /\ \E record \in StoreRecords :
          /\ log' = write_jsonl_record(record, log)
          /\ call' = [op |-> "write_jsonl_record", record |-> record]
    /\ UNCHANGED <<session, images, locked, tmp, proc>>

StoreRead ==
    /\ call' = [op |-> "read_jsonl_records", records |-> read_jsonl_records(log)]
    /\ UNCHANGED <<session, log, images, locked, tmp, proc>>

StoreLoad ==
    /\ call' = [op |-> "load_jsonl_with_index", records |-> load_jsonl_with_index(log)]
    /\ UNCHANGED <<session, log, images, locked, tmp, proc>>

StoreDelete ==
    /\ \E i \in -1..MaxStoreLines :
          LET r == delete_record_and_image_by_index(i, log, images, locked)
          IN  /\ log' = r.file
              /\ images' = r.dir
              /\ call' = [op |-> "delete_record_and_image_by_index",
                          target_idx |-> i, ok |-> r.ok, img |-> r.img,
                          raised |-> r.raised]
    /\ UNCHANGED <<session, locked, tmp, proc>>

StoreDeleteAll ==
    /\ LET r == delete_all_records_and_images(log, images, locked)
       IN  /\ log' = r.file
           /\ images' = r.dir
           /\ call' = [op |-> "delete_all_records_and_images", deleted |-> r.deleted]
    /\ UNCHANGED <<session, locked, tmp, proc>>

NextStore ==
    \/ StoreWrite
    \/ StoreRead
    \/ StoreLoad
    \/ StoreDelete
    \/ StoreDeleteAll

SpecStore == InitStore /\ [][NextStore]_vars

(***************************************************************************)
(* delete_record_and_image_by_index statement by statement: the call can   *)
(* be killed between any two statements, and other sessions read the log   *)
(* or append to it meanwhile.                                              *)
(***************************************************************************)
\* A line whose bytes are not valid UTF-8.
RawLine == [kind |-> "raw", pairs |-> <<>>]
\* {"summary_image": 3}, written by hand.
NumberImageLine == [kind |-> "obj", pairs |-> << <<"summary_image", <<Digit(3)>> >> >>]

DeleteLines == {RawLine, NumberImageLine, BadLine, json_dumps(Saved(FormA))}

\* What a killed earlier call left at JSONL_PATH + ".tmp".
LeftoverTmp == [exists |-> TRUE, lines |-> <<BadLine>>]

InitDelete ==
    /\ InitSession
    /\ log \in {NoFile} \cup
               {[exists |-> TRUE, lines |-> l] : l \in SeqsUpTo(DeleteLines, MaxDeleteLines)}
    /\ images \in SUBSET {image_name(Saved(FormA))}
    /\ locked \in SUBSET images
    /\ tmp \in {NoFile, LeftoverTmp}
    /\ proc = NoProc

Running == proc.pc \notin {"idle", "done", "raised", "crashed"}

\* The call returns (ok, img).
Return(ok, img) ==
    /\ proc' = [proc EXCEPT !.pc = "done"]
    /\ call' = [op |-> "delete_record_and_image_by_index",
                target_idx |-> proc.target_idx, ok |-> ok, img |-> img,
                raised |-> FALSE]

DeleteCall ==
    /\ ~Running
    /\ \E target_idx \in -1..MaxDeleteLines :
          proc' = [NoProc EXCEPT !.pc = "exists", !.target_idx = target_idx,
                                 !.original = log.lines]
    /\ call' = NoCall
    /\ UNCHANGED <<session, log, images, locked, tmp>>

\* if not os.path.exists(jsonl_path): return False, None
DeleteCheckExists ==
    /\ proc.pc = "exists"
    /\ IF ~log.exists
       THEN Return(FALSE, None)
       ELSE proc' = [proc EXCEPT !.pc = "read"] /\ UNCHANGED call
    /\ UNCHANGED <<session, log, images, locked, tmp>>

\* lines = src.readlines()
DeleteReadLines ==
    /\ proc.pc = "read"
    /\ proc' = [proc EXCEPT !.pc = "bounds", !.lines = readlines(log)]
    /\ UNCHANGED <<session, log, images, locked, tmp, call>>

\* if target_idx < 0 or target_idx >= len(lines): return False, None
DeleteCheckBounds ==
    /\ proc.pc = "bounds"
    /\ IF proc.target_idx < 0 \/ proc.target_idx >= Len(proc.lines)
       THEN Return(FALSE, None)
       ELSE proc' = [proc EXCEPT !.pc = "parse"] /\ UNCHANGED call
    /\ UNCHANGED <<session, log, images, locked, tmp>>

\* img_to_delete = json.loads(lines[target_idx]).get("summary_image") or None,
\* None when that raises
DeleteParseTarget ==
    /\ proc.pc = "parse"
    /\ proc' = [proc EXCEPT !.pc = "open",
                            !.img_to_delete = ImageOfLine(proc.lines[proc.target_idx + 1]),
                            !.raises = ImageJoinRaises(proc.lines[proc.target_idx + 1])]
    /\ UNCHANGED <<session, log, images, locked, tmp, call>>

\* open(jsonl_path, "w") where the code opens tmp_path: the log is emptied
\* before the rewrite starts.
DeleteOpenLogForWrite ==
    /\ proc.pc = "open"
    /\ log' = [exists |-> TRUE, lines |-> <<>>]
    /\ proc' = [proc EXCEPT !.pc = "write", !.i = 0]
    /\ UNCHANGED <<session, tmp, images, locked, call>>

\* open(tmp_path, "w"): the temporary file is created or emptied
DeleteOpenTmp ==
    /\ proc.pc = "open"
    /\ tmp' = [exists |-> TRUE, lines |-> <<>>]
    /\ proc' = [proc EXCEPT !.pc = "write", !.i = 0]
    /\ UNCHANGED <<session, log, images, locked, call>>

\* one turn of the loop: if i != target_idx: dst.write(line)
DeleteWriteLine ==
    /\ proc.pc = "write"
    /\ proc.i < Len(proc.lines)
    /\ tmp' = IF proc.i # proc.target_idx
              THEN [tmp EXCEPT !.lines = Append(@, proc.lines[proc.i + 1])]
              ELSE tmp
    /\ proc' = [proc EXCEPT !.i = @ + 1]
    /\ UNCHANGED <<session, log, images, locked, call>>

\* the loop ends and the with block closes the temporary file
DeleteCloseTmp ==
    /\ proc.pc = "write"
    /\ proc.i = Len(proc.lines)
    /\ proc' = [proc EXCEPT !.pc = "replace"]
    /\ UNCHANGED <<session, log, images, locked, tmp, call>>

\* A replace that first copies to the temporary file the lines the log has
\* gained since it was read.
DeleteReplaceKeepingAppended ==
    /\ proc.pc = "replace"
    /\ log' = [exists |-> TRUE,
               lines |-> tmp.lines \o SubSeq(log.lines, Len(proc.lines) + 1, Len(log.lines))]
    /\ tmp' = NoFile
    /\ proc' = [proc EXCEPT !.pc = "image"]
    /\ UNCHANGED <<session, images, locked, call>>

\* os.replace(tmp_path, jsonl_path)
DeleteReplace ==
    /\ proc.pc = "replace"
    /\ log' = [exists |-> TRUE, lines |-> tmp.lines]
    /\ tmp' = NoFile
    /\ proc' = [proc EXCEPT !.pc = "image"]
    /\ UNCHANGED <<session, images, locked, call>>

\* if img_to_delete: os.path.join, then os.remove in try/except; return True, img_to_delete
DeleteImage ==
    /\ proc.pc = "image"
    /\ IF proc.raises
       THEN /\ proc' = [proc EXCEPT !.pc = "raised"]
            /\ call' = [op |-> "delete_record_and_image_by_index",
                        target_idx |-> proc.target_idx, ok |-> FALSE, img |-> None,
                        raised |-> TRUE]
            /\ UNCHANGED images
       ELSE /\ images' = IF proc.img_to_delete # None
                         THEN RemoveImage(proc.img_to_delete[1], images, locked)
                         ELSE images
            /\ Return(TRUE, proc.img_to_delete)
    /\ UNCHANGED <<session, log, locked, tmp>>

\* The process is killed between two statements.
Crash ==
    /\ Running
    /\ proc' = [proc EXCEPT !.pc = "crashed"]
    /\ UNCHANGED <<session, log, images, locked, tmp, call>>

\* Another session saves a record while the call runs.
ConcurrentAppend ==
    /\ Running
    /\ Len(log.lines) < MaxDeleteLines
    /\ log' = write_jsonl_record(Saved(FormB), log)
    /\ call' = [op |-> "write_jsonl_record", record |-> Saved(FormB)]
    /\ UNCHANGED <<session, images, locked, tmp, proc>>

DeleteSteps ==
    \/ DeleteCall
    \/ DeleteCheckExists
    \/ DeleteReadLines
    \/ DeleteCheckBounds
    \/ DeleteParseTarget
    \/ DeleteOpenTmp
    \/ DeleteWriteLine
    \/ DeleteCloseTmp
    \/ DeleteReplace
    \/ DeleteImage

\* A call that can be killed, with another session reading the log.
NextDelete ==
    \/ DeleteSteps
    \/ Crash
    \/ StoreRead

SpecDelete == InitDelete /\ [][NextDelete]_vars

\* A call with another session appending to the log.
NextRace ==
    \/ DeleteSteps
    \/ ConcurrentAppend

SpecRace == InitDelete /\ [][NextRace]_vars

(***************************************************************************)
(* The "Finish & Export" branch statement by statement: the script can be  *)
(* killed between any two statements.                                      *)
(***************************************************************************)
\* The branch with write_jsonl_record placed before draw_summary_image.
FinishOrderAppendFirst == <<"write_jsonl_record", "draw_summary_image", "store">>

\* The statements of the branch that act on files or on the session, in the
\* order of the code.
FinishOrder == <<"draw_summary_image", "write_jsonl_record", "store">>

\* No Finish is running; at holds the position in FinishOrder of a running one.
NoFinish == [pc |-> "idle", at |-> 0, drawn |-> FALSE, appended |-> FALSE]

\* The statement the running Finish is about to execute.
FinishAt(statement) == proc.pc = "finish" /\ FinishOrder[proc.at] = statement

\* The running Finish moves to its next statement, or ends after the last.
FinishAdvance(p) ==
    IF p.at < Len(FinishOrder) THEN [p EXCEPT !.at = @ + 1] ELSE [p EXCEPT !.pc = "idle"]

FinishForms == {FormA, FormB, [FormA EXCEPT !.site = <<"a", "/">>]}

\* The session on the last content step with a filled form, the log and the
\* image directory as earlier runs left them.
InitFinish ==
    /\ mode = "new"
    /\ step = LAST_FORM_STEP
    /\ form \in FinishForms
    /\ confirm_delete = FALSE
    /\ confirm_rec = None
    /\ confirm_delete_all = FALSE
    /\ confirm_input = None
    /\ export = None
    /\ call = NoCall
    /\ log \in {NoFile} \cup
               {[exists |-> TRUE, lines |-> l] :
                   l \in SeqsUpTo({json_dumps(Saved(f)) : f \in FinishForms},
                                  MaxFinishLines - 1)}
    /\ images \in SUBSET {image_name(Saved(f)) : f \in FinishForms}
    /\ locked = {}
    /\ tmp = NoFile
    /\ proc = NoFinish

\* the click on "Finish & Export": record = collect_export_record(form)
FinishClick ==
    /\ mode = "new"
    /\ step = LAST_FORM_STEP
    /\ validate_step(form, step)
    /\ proc.pc = "idle"
    /\ Len(log.lines) < MaxFinishLines
    /\ proc' = [NoFinish EXCEPT !.pc = "finish", !.at = 1]
    /\ call' = NoCall
    /\ UNCHANGED <<session, log, images, locked, tmp>>

\* draw_summary_image(image_path, form) returns: img.save has written the file
FinishDraw ==
    /\ FinishAt("draw_summary_image")
    /\ images' = images \cup {image_name(collect_export_record(form))}
    /\ proc' = FinishAdvance([proc EXCEPT !.drawn = TRUE])
    /\ UNCHANGED <<session, log, locked, tmp, call>>

\* draw_summary_image raises: the exception ends the run
FinishDrawRaises ==
    /\ FinishAt("draw_summary_image")
    /\ images' \in {images, images \cup {image_name(collect_export_record(form))}}
    /\ proc' = [proc EXCEPT !.pc = "idle"]
    /\ call' = [op |-> "draw_summary_image_raised"]
    /\ UNCHANGED <<session, log, locked, tmp>>

\* record["summary_image"] = image_name; write_jsonl_record(record)
FinishWrite ==
    /\ FinishAt("write_jsonl_record")
    /\ LET saved == Saved(form)
       IN  /\ log' = write_jsonl_record(saved, log)
           /\ call' = [op |-> "write_jsonl_record", record |-> saved]
    /\ proc' = FinishAdvance([proc EXCEPT !.appended = TRUE])
    /\ UNCHANGED <<session, images, locked, tmp>>

\* st.session_state.export_... = ...; st.session_state.step = EXPORT_STEP
FinishStore ==
    /\ FinishAt("store")
    /\ export' = Some(export_data(Saved(form)))
    /\ step' = EXPORT_STEP
    /\ proc' = FinishAdvance(proc)
    /\ UNCHANGED <<mode, form, confirm_delete, confirm_rec, confirm_delete_all,
                   confirm_input, log, images, locked, tmp, call>>

\* The script is killed between two statements of the branch.
FinishKilled ==
    /\ proc.pc = "finish"
    /\ proc' = [proc EXCEPT !.pc = "killed"]
    /\ UNCHANGED <<session, log, images, locked, tmp, call>>

NextFinish ==
    \/ FinishClick
    \/ FinishDraw
    \/ FinishDrawRaises
    \/ FinishWrite
    \/ FinishStore
    \/ FinishKilled
    \/ Done

SpecFinish == InitFinish /\ [][NextFinish]_vars

(***************************************************************************)
(* collect_export_record applied to forms of any site name and date.       *)
(***************************************************************************)
NorthBlock2 ==
    <<"N", "o", "r", "t", "h", " ", "B", "l", "o", "c", "k", " ", "#", "2">>

IdSites == SeqsUpTo({"a", " ", "#", "_"}, MaxSiteLen) \cup {NorthBlock2}

IdDates == {Today, <<"2", "0", "2", "4", "-", "1", "2", "-", "3", "1">>}

\* The session on the last content step of the wizard, the form filled in.
InitId ==
    /\ mode = "new"
    /\ step = LAST_FORM_STEP
    /\ form \in {[default_form EXCEPT !.date = d, !.site = site] :
                    d \in IdDates, site \in IdSites}
    /\ confirm_delete = FALSE
    /\ confirm_rec = None
    /\ confirm_delete_all = FALSE
    /\ confirm_input = None
    /\ export = None
    /\ call = NoCall
    /\ log = NoFile
    /\ images = {}
    /\ locked = {}
    /\ tmp = NoFile
    /\ proc = NoProc

Collect ==
    /\ call' = [op |-> "collect_export_record", record |-> collect_export_record(form)]
    /\ UNCHANGED <<session, log, images, locked, tmp, proc>>

NextId == Collect

SpecId == InitId /\ [][NextId]_vars

(***************************************************************************)
(* Properties.                                                             *)
(***************************************************************************)
DeleteOne == "delete_record_and_image_by_index"
DeleteAll == "delete_all_records_and_images"

\* C1: in mode "new" at a content step s in 0..7, a step forward is taken only
\* when validate_step(form, s) passes, and it leads to exactly s + 1.
C1_NextOnlyWhenValid ==
    [][(mode = "new" /\ mode' = "new" /\ step \in 0..(LAST_FORM_STEP - 1) /\ step' > step)
         => (validate_step(form, step) /\ step' = step + 1)]_vars

\* Next has carried a form with Vegetation "Other" and its text past step 1.
C1_Witness ==
    /\ mode = "new"
    /\ step = 2
    /\ form.vegetation.Other
    /\ form.vegetation_other = <<"a">>

\* The step owns an "Other" flag that is set while its paired text is empty
\* after trimming.
OtherPending(f, s) ==
    \/ s = 1 /\ f.vegetation.Other /\ Strip(f.vegetation_other) = <<>>
    \/ s = 2 /\ f.dominant_species.Other /\ Strip(f.dominant_other) = <<>>
    \/ s = 7 /\ f.animals.Other_feral > 0 /\ Strip(f.animals_other_text) = <<>>

\* C2 as stated: while a step's "Other" flag is set and its text is empty
\* after trimming, no transition leaves that step.
C2_NoTransitionLeavesStep ==
    [][(mode = "new" /\ OtherPending(form, step)) => (mode' = "new" /\ step' = step)]_vars

\* C2 as amended: while a step's "Other" flag is set and its text is empty
\* after trimming, no transition moves forward from that step (Back still
\* leaves it).
C2_NoForwardWhilePending ==
    [][(mode = "new" /\ OtherPending(form, step)) => (mode' = "new" /\ step' <= step)]_vars

\* The Animals step with "Other feral" set and only blanks as its notes.
C2_Witness ==
    /\ mode = "new"
    /\ step = 7
    /\ form.animals.Other_feral > 0
    /\ form.animals_other_text = <<" ">>

\* C3: a Finish whose rendering succeeds appends exactly one line, the
\* collected record with summary_image set, leaves the lines that were there
\* unchanged and in place, and moves the wizard to the export step.
C3_FinishAppendsOneLine ==
    [][(mode = "new" /\ step = LAST_FORM_STEP /\ call'.op = "write_jsonl_record")
         => /\ log'.exists
            /\ Len(log'.lines) = Len(log.lines) + 1
            /\ \A i \in 1..Len(log.lines) : log'.lines[i] = log.lines[i]
            /\ IsDict(log'.lines[Len(log'.lines)])
            /\ json_loads(log'.lines[Len(log'.lines)]) =
                  [collect_export_record(form) EXCEPT
                      !.summary_image = submission_id(form) \o PNG]
            /\ mode' = "new"
            /\ step' = EXPORT_STEP]_vars

\* A Finish has appended to a log that already held a line.
C3_Witness ==
    /\ mode = "new"
    /\ step = EXPORT_STEP
    /\ call.op = "write_jsonl_record"
    /\ Len(log.lines) = 2

\* C4: when rendering the summary image fails during Finish, no record is
\* appended to the log and the wizard stays on the last content step.
C4_RenderFailureAborts ==
    [][call'.op = "draw_summary_image_raised"
         => (log' = log /\ mode' = mode /\ step' = step /\ export' = export)]_vars

\* A Finish whose rendering failed, with a record already in the log.
C4_Witness ==
    /\ call.op = "draw_summary_image_raised"
    /\ mode = "new"
    /\ step = LAST_FORM_STEP
    /\ Len(log.lines) = 1

\* C6: delete_record_and_image_by_index(i) with i < 0, i >= the number of
\* lines, or no log file returns (False, None) and leaves the log and the
\* image files as they are.
C6_DeleteOutOfRangeFails ==
    [][(call'.op = DeleteOne
          /\ (~log.exists \/ call'.target_idx < 0 \/ call'.target_idx >= Len(log.lines)))
         => (~call'.ok /\ call'.img = None /\ log' = log /\ images' = images)]_vars

\* A negative index has been refused on a log whose last line names an image
\* that is there and can be removed.
C6_Witness ==
    /\ call.op = DeleteOne
    /\ ~call.ok
    /\ call.target_idx = -1
    /\ Len(log.lines) >= 1
    /\ ImageOfLine(log.lines[Len(log.lines)]) # None
    /\ ImageOfLine(log.lines[Len(log.lines)])[1] \in images \ locked

DeleteOps == {DeleteOne, DeleteAll}

IsPrefix(s, t) == Len(s) <= Len(t) /\ \A i \in 1..Len(s) : s[i] = t[i]

\* What C7 says of every run but the gate of the delete-all confirmation: a
\* single delete is invoked only with its confirmation armed on a selected
\* record, and a run that invokes no deletion removes no line and no image.
C7_GatedExceptText ==
    /\ (call'.op = DeleteOne) =>
          (mode = "view" /\ confirm_delete /\ confirm_rec # None
             /\ call'.target_idx = confirm_rec[1]._idx)
    /\ (call'.op \notin DeleteOps) =>
          (IsPrefix(log.lines, log'.lines) /\ images \subseteq images')
    /\ (call'.op \notin DeleteOps /\ mode = "view") => UNCHANGED <<log, images>>

\* C7 as stated: deletions happen only as the confirm step of an armed
\* confirmation, delete-all only while the typed text equals DELETE.
C7_DeleteAllTextEqualsDELETE ==
    [][/\ C7_GatedExceptText
       /\ (call'.op = DeleteAll) =>
             (mode = "view" /\ confirm_delete_all /\ confirm_input = Some(DELETE))]_vars

\* C7 as amended: delete-all only while the typed text equals DELETE after
\* trimming whitespace and upper-casing it.
C7_DeletionsAreConfirmed ==
    [][/\ C7_GatedExceptText
       /\ (call'.op = DeleteAll) =>
             (mode = "view" /\ confirm_delete_all /\ confirm_input # None
                /\ Upper(Strip(confirm_input[1])) = DELETE)]_vars

\* A confirmed delete-all has removed the lines and an image.
C7_Witness ==
    /\ call.op = DeleteAll
    /\ call.deleted >= 1
    /\ log.exists
    /\ log.lines = <<>>
    /\ ~confirm_delete_all

\* C8: every record load_jsonl_with_index returns carries the zero-based
\* position of the line it was parsed from, blank and malformed lines
\* counted, and deleting by that index removes exactly that line.
C8_IdxIsPhysicalOffset ==
    LET loaded == load_jsonl_with_index(log)
        n == Len(log.lines)
    IN  \A k \in 1..Len(loaded) :
           LET r == loaded[k]
               i == r._idx
           IN  /\ i >= 0 /\ i < n
               /\ IsDict(log.lines[i + 1])
               /\ DOMAIN r = DOMAIN json_loads(log.lines[i + 1]) \cup {"_idx"}
               /\ \A key \in DOMAIN r \ {"_idx"} : r[key] = json_loads(log.lines[i + 1])[key]
               /\ Cardinality({j \in 1..i : IsDict(log.lines[j])}) = k - 1
               /\ LET d == delete_record_and_image_by_index(i, log, images, locked)
                  IN  /\ Len(d.file.lines) = n - 1
                      /\ \A j \in 1..(n - 1) :
                            d.file.lines[j] = IF j <= i THEN log.lines[j]
                                              ELSE log.lines[j + 1]

\* A record has been loaded from the third line, after a blank and a
\* malformed one.
C8_Witness ==
    /\ call.op = "load_jsonl_with_index"
    /\ Len(log.lines) = 3
    /\ log.lines[1] = BlankLine
    /\ log.lines[2] = BadLine
    /\ Len(call.records) = 1
    /\ call.records[1]._idx = 2

\* C9: after write_jsonl_record(record), read_jsonl_records() returns what
\* it returned before followed by a last element equal to record.
C9_AppendThenReadRoundTrip ==
    [][call'.op = "write_jsonl_record"
         => read_jsonl_records(log') = Append(read_jsonl_records(log), call'.record)]_vars

\* A record has been appended to a log that read as one record and held a
\* malformed line.
C9_Witness ==
    /\ call.op = "write_jsonl_record"
    /\ Len(log.lines) = 3
    /\ log.lines[1] = BadLine
    /\ Len(read_jsonl_records(log)) = 2
    /\ read_jsonl_records(log)[2] = call.record

\* C10 as stated: delete_all_records_and_images() leaves the log reading as
\* empty, leaves no file whose name ends in the image extension, and returns
\* the number of files it removed.
C10_DeleteAllRemovesEveryImage ==
    [][call'.op = DeleteAll
         => /\ read_jsonl_records(log') = <<>>
            /\ \A n \in images' : ~EndsWith(n, PNG)
            /\ call'.deleted = Cardinality(images \ images')]_vars

\* C10 as amended: it leaves the log reading as empty, removes every file
\* whose name ends in the image extension (in any letter case) and whose
\* removal does not fail, leaves every other file, and returns the number of
\* files it removed.
C10_DeleteAllBestEffort ==
    [][call'.op = DeleteAll
         => /\ read_jsonl_records(log') = <<>>
            /\ log'.lines = <<>>
            /\ images' \subseteq images
            /\ \A n \in images :
                  (n \in images') <=> (~EndsWith(Lower(n), PNG) \/ n \in locked)
            /\ call'.deleted = Cardinality(images \ images')]_vars

\* A delete-all has removed one image and left one that cannot be removed.
C10_Witness ==
    /\ call.op = DeleteAll
    /\ call.deleted = 1
    /\ \E n \in images : EndsWith(Lower(n), PNG) /\ n \in locked

(***************************************************************************)
(* The statement-by-statement delete                                       *)
(***************************************************************************)
\* The index passed to the running call is valid for the log it found.
ValidTarget == proc.target_idx >= 0 /\ proc.target_idx < Len(proc.original)

\* os.replace has just put the rewritten file in place of the log.
Replaced == proc.pc = "replace" /\ proc'.pc = "image"

\* C5: delete_record_and_image_by_index(i) with 0 <= i < the number of lines
\* leaves the log as the original line sequence with element i removed: one
\* line fewer, every other line byte-identical and in the same order.
C5_OtherLinesByteIdentical ==
    [][Replaced =>
         /\ Len(log'.lines) = Len(log.lines) - 1
         /\ \A j \in 1..Len(log'.lines) :
               log'.lines[j] = IF j <= proc.target_idx
                               THEN log.lines[j] ELSE log.lines[j + 1]]_vars

\* C13: read_jsonl_records returns exactly the parsed values of the lines that
\* are not blank and parse as JSON, in file order, leaving out blank and
\* malformed lines; it changes neither the log nor the images, and a second
\* read right after it returns the same.
C13_ReadReturnsParsedLinesInOrder ==
    [][call'.op = "read_jsonl_records" =>
         LET kept == {j \in 1..Len(log.lines) :
                        ~IsBlank(log.lines[j]) /\ Parses(log.lines[j])}
             records == call'.records
         IN  /\ UNCHANGED <<log, images>>
             /\ Len(records) = Cardinality(kept)
             /\ \A j \in kept :
                   records[Cardinality({k \in kept : k <= j})] = ParsedValue(log.lines[j])
             /\ read_jsonl_records(log') = records]_vars

\* A read of a log of three lines returned two values, the second of them
\* not an object: a blank or malformed line was left out.
C13_Witness ==
    /\ call.op = "read_jsonl_records"
    /\ Len(log.lines) = 3
    /\ Len(call.records) = 2
    /\ ~IsDict(log.lines[3]) /\ Parses(log.lines[3])
    /\ \E j \in 1..2 : ~Parses(log.lines[j])

\* Text that is empty after trimming: it holds nothing but white space.
EmptyAfterTrimming(t) == \A i \in 1..Len(t) : IsSpace(t[i])

\* The fields of the form that the widgets of step s edit, among those kept.
StepFields(s) ==
    CASE s = 0 -> {"date", "site"}
      [] s = 1 -> {"vegetation", "vegetation_other"}
      [] s = 2 -> {"dominant_species", "dominant_other"}
      [] s = 7 -> {"animals", "animals_other_text"}
      [] OTHER -> {}

\* Forms to take the fields of the other steps from.
FilledForm ==
    [default_form EXCEPT !.site = <<"a">>,
                         !.vegetation.Other = TRUE, !.vegetation_other = <<"a">>,
                         !.dominant_species.Other = TRUE, !.dominant_other = <<"a">>,
                         !.animals.Other_feral = 1, !.animals_other_text = <<"a">>]
PendingForm ==
    [default_form EXCEPT !.site = <<" ">>,
                         !.vegetation.Other = TRUE,
                         !.dominant_species.Other = TRUE,
                         !.animals.Other_feral = 1]

\* f with every field outside step s taken from g.
WithOtherStepsFrom(f, g, s) ==
    [k \in DOMAIN f |-> IF k \in StepFields(s) THEN f[k] ELSE g[k]]

\* C14: validate_step(form, s) fails exactly when s = 0 and the site is empty
\* after trimming, or s is 1, 2 or 7 and that step's Other entry is set while
\* its paired text is empty after trimming; at every other step it passes,
\* and the result at step s does not change with the fields of other steps.
C14_ValidateStepExact ==
    \A s \in 0..EXPORT_STEP :
       /\ ~validate_step(form, s) <=>
             \/ s = 0 /\ EmptyAfterTrimming(form.site)
             \/ s = 1 /\ form.vegetation.Other /\ EmptyAfterTrimming(form.vegetation_other)
             \/ s = 2 /\ form.dominant_species.Other
                      /\ EmptyAfterTrimming(form.dominant_other)
             \/ s = 7 /\ form.animals.Other_feral > 0
                      /\ EmptyAfterTrimming(form.animals_other_text)
       /\ \A g \in {default_form, FilledForm, PendingForm} :
             validate_step(WithOtherStepsFrom(form, g, s), s) = validate_step(form, s)

\* At step 7 with Other feral set and only white space as its notes: the
\* step fails, while the site of step 0 is filled in.
C14_Witness ==
    /\ mode = "new"
    /\ step = 7
    /\ form.animals.Other_feral > 0
    /\ form.animals_other_text = <<" ">>
    /\ form.site = <<"a">>
    /\ ~validate_step(form, step)

\* On a content step of the wizard.
OnContentStep == mode = "new" /\ step \in 0..LAST_FORM_STEP

\* C15: Back can be clicked at every content step 0..8 whatever validation
\* says; a move back from step s >= 1 lands on s - 1 with the form as
\* entered, and from step 0 it lands on the splash page.
C15_BackAlwaysAllowed ==
    /\ [](OnContentStep => ENABLED Back)
    /\ [][(OnContentStep /\ (step' < step \/ mode' # "new"))
            => IF step >= 1
               THEN mode' = "new" /\ step' = step - 1 /\ form' = form
               ELSE mode' = "splash"]_vars

\* Back has been clicked at step 1 while its Other entry had no text: the
\* wizard is at step 0 with that entry still set.
C15_Witness ==
    /\ mode = "new"
    /\ step = 0
    /\ form.vegetation.Other
    /\ form.vegetation_other = <<>>

\* C16: the form is fresh for every wizard session: on the splash page the
\* step is 0 and the form is the default form, and every step that enters
\* mode "new" starts at step 0 with the default form.
C16_FormFreshPerSession ==
    /\ [](mode = "splash" => step = 0 /\ form = default_form)
    /\ [][(mode # "new" /\ mode' = "new") => step' = 0 /\ form' = default_form]_vars

\* A second wizard session: a submission has been finished before, and the
\* wizard is at step 0 with the default form.
C16_Witness ==
    /\ mode = "new"
    /\ step = 0
    /\ form = default_form
    /\ export # None
    /\ export[1].record.site # <<>>

\* C17: every log entry appended by Finish has summary_image equal to its own
\* submission_id followed by ".png", a bare file name with no directory
\* part, and Finish writes the image file of that name.
C17_SummaryImageIsIdDotPng ==
    /\ [](\A i \in 1..Len(log.lines) :
             LET entry == json_loads(log.lines[i])
             IN  /\ entry.summary_image = entry.submission_id \o <<".", "p", "n", "g">>
                 /\ "/" \notin SeqRange(entry.summary_image))
    /\ [][(mode = "new" /\ call'.op = "write_jsonl_record")
            => LET entry == json_loads(log'.lines[Len(log'.lines)])
               IN  /\ entry.submission_id = submission_id(form)
                   /\ images' = images \cup {entry.summary_image}]_vars

\* Finish has saved a submission whose site name holds a "/": the entry
\* names 20240305_a.png, and that file is in the image directory.
C17_Witness ==
    /\ call.op = "write_jsonl_record"
    /\ call.record.site = <<"a", "/">>
    /\ call.record.summary_image =
          <<"2", "0", "2", "4", "0", "3", "0", "5", "_", "a", ".", "p", "n", "g">>
    /\ call.record.summary_image \in images
    /\ json_loads(log.lines[Len(log.lines)]).summary_image = call.record.summary_image

\* site with every maximal run of non-word characters put as one "_": a
\* word character stays, the first character of a run becomes "_", the rest
\* of the run goes.
RunsAsUnderscore(site) ==
    LET marked == [i \in 1..Len(site) |->
                     IF IsWordChar(site[i]) THEN site[i]
                     ELSE IF i = 1 \/ IsWordChar(site[i - 1]) THEN "_"
                     ELSE ""]
    IN  SelectSeq(marked, LAMBDA c : c # "")

\* t from its first to its last character that is not "_".
WithoutEdgeUnderscores(t) ==
    LET inner == {i \in 1..Len(t) : t[i] # "_"}
    IN  IF inner = {} THEN <<>>
        ELSE SubSeq(t, CHOOSE i \in inner : \A j \in inner : i <= j,
                       CHOOSE i \in inner : \A j \in inner : j <= i)

\* C18: the submission_id collect_export_record computes is the date without
\* its hyphens, an underscore, and the site name with every maximal run of
\* non-word characters put as one underscore and the underscores at its
\* ends stripped; "2024-03-05" and "North Block #2" give
\* "20240305_North_Block_2"; the same form gives the same id.
C18_SubmissionIdComputed ==
    call.op = "collect_export_record" =>
        /\ call.record.submission_id =
              SelectSeq(form.date, LAMBDA c : c # "-") \o <<"_">>
                 \o WithoutEdgeUnderscores(RunsAsUnderscore(form.site))
        /\ (form.date = Today /\ form.site = NorthBlock2) =>
              call.record.submission_id =
                 <<"2", "0", "2", "4", "0", "3", "0", "5", "_", "N", "o", "r", "t", "h",
                   "_", "B", "l", "o", "c", "k", "_", "2">>
        /\ collect_export_record(form).submission_id = call.record.submission_id

\* The record of the worked example has been collected.
C18_Witness ==
    /\ call.op = "collect_export_record"
    /\ form.date = Today
    /\ form.site = NorthBlock2
    /\ Len(call.record.submission_id) = 22

\* C19: a record that write_jsonl_record appends after a delete call has read
\* the log and before it replaces the file is not in the log afterwards: the
\* replace installs the lines the call read, the target aside, so the log
\* loses the target and every line it has gained since the read.
C19_AppendDuringDeleteIsLost ==
    [][Replaced =>
         /\ Len(log'.lines) = Len(proc.lines) - 1
         /\ \A j \in 1..Len(log'.lines) :
               log'.lines[j] = proc.lines[IF j <= proc.target_idx THEN j ELSE j + 1]
         /\ Len(log.lines) - Len(log'.lines) = 1 + (Len(log.lines) - Len(proc.lines))]_vars

\* A lost append: the call read a log of one line and has replaced it; the
\* record another session appended in between, which is not the line
\* deleted, is not in the log.
C19_Witness ==
    /\ proc.pc = "image"
    /\ Len(proc.lines) = 1
    /\ proc.target_idx = 0
    /\ call.op = "write_jsonl_record"
    /\ json_dumps(call.record) # proc.lines[1]
    /\ json_dumps(call.record) \notin SeqRange(log.lines)

\* C20: whenever a confirmed single-record deletion succeeds, the line it
\* removes is the record that was selected when the confirmation was armed,
\* whatever the user did between arming and confirming.
C20_ConfirmedDeleteRemovesArmedRecord ==
    [][(call'.op = DeleteOne /\ call'.ok) =>
         LET selected == confirm_rec[1]
             removed == log.lines[call'.target_idx + 1]
         IN  /\ IsDict(removed)
             /\ \A k \in DOMAIN selected \ {"_idx"} :
                   json_loads(removed)[k] = selected[k]]_vars

\* C11: at every point of a delete call, a killed call included, the log is
\* either untouched or, once the index has passed the range check, holds
\* every line the call read but the target; it is never emptied or
\* partly written.
C11_LogWholeAtEveryStep ==
    proc.pc # "idle" =>
        \/ log.lines = proc.original
        \/ /\ ValidTarget
           /\ proc.pc \in {"image", "done", "raised", "crashed"}
           /\ Len(log.lines) = Len(proc.original) - 1
           /\ \A j \in 1..Len(log.lines) :
                 log.lines[j] = Decoded(proc.original[IF j <= proc.target_idx
                                                      THEN j ELSE j + 1])

\* The call was killed inside the write loop, the temporary file holding none
\* of the line it was to keep, and the log is as the call found it.
C11_Witness ==
    /\ proc.pc = "crashed"
    /\ Len(proc.lines) = 2
    /\ proc.target_idx = 0
    /\ proc.i = 1
    /\ tmp.exists /\ tmp.lines = <<>>
    /\ log.lines = proc.original

\* C12: with a valid index the call always takes the target line out and
\* returns success, whatever the line holds and whatever happens to the
\* image; it never raises.
C12_ValidIndexAlwaysSucceeds ==
    [][(proc.pc = "image" /\ proc'.pc \notin {"image", "crashed"})
         => /\ call'.op = DeleteOne
            /\ call'.ok
            /\ ~call'.raised
            /\ Len(log'.lines) = Len(proc.original) - 1]_vars

(***************************************************************************)
(* The log and the image directory together                                *)
(***************************************************************************)
\* C21: after any sequence of Finish, single-record delete and delete-all,
\* every entry of the log names a summary image that is in the image
\* directory, also when two submissions share the date and the sanitised
\* site name.
C21_EveryEntryHasItsImage ==
    \A i \in 1..Len(log.lines) :
       json_loads(log.lines[i]).summary_image \in images

(***************************************************************************)
(* The wizard as a whole                                                   *)
(***************************************************************************)
\* C22: at every wizard state at step s the form passes the validation rule
\* of every step before s, although each rule is checked on its own step only
\* and Back is always allowed; so every record Finish appends has a site that
\* is not empty after trimming and, for each Other entry that is set, a
\* paired text that is not empty after trimming.
C22_EarlierStepsStayValid ==
    /\ [](mode = "new" => \A k \in 0..(step - 1) : validate_step(form, k))
    /\ [][(mode = "new" /\ call'.op = "write_jsonl_record")
            => LET entry == json_loads(log'.lines[Len(log'.lines)])
               IN  /\ ~EmptyAfterTrimming(entry.site)
                   /\ form.vegetation.Other =>
                         /\ ~EmptyAfterTrimming(form.vegetation_other)
                         /\ entry.vegetation = OtherPrefix \o Strip(form.vegetation_other)
                   /\ form.dominant_species.Other =>
                         /\ ~EmptyAfterTrimming(form.dominant_other)
                         /\ entry.dominant_species =
                               OtherPrefix \o Strip(form.dominant_other)
                   /\ entry.animals_other > 0 =>
                         ~EmptyAfterTrimming(entry.animals_other_text)]_vars

\* A record with all three Other entries set has been saved.
C22_Witness ==
    /\ mode = "new"
    /\ step = EXPORT_STEP
    /\ call.op = "write_jsonl_record"
    /\ form.vegetation.Other
    /\ form.dominant_species.Other
    /\ form.animals.Other_feral > 0

\* C23: the export step is reached only by a Finish that ran to its end: in
\* every state with mode "new" and step 9 the session holds export_record
\* and export_image_path, and export_record is the last entry of the log.
C23_ExportStepOnlyAfterFinish ==
    /\ []((mode = "new" /\ step = EXPORT_STEP) =>
            /\ export # None
            /\ export[1].image_path =
                  SUMMARY_DIR \o <<"/">> \o export[1].record.summary_image
            /\ log.lines # <<>>
            /\ IsDict(log.lines[Len(log.lines)])
            /\ json_loads(log.lines[Len(log.lines)]) = export[1].record)
    /\ [][(step' = EXPORT_STEP /\ step # EXPORT_STEP)
            => /\ mode = "new" /\ step = LAST_FORM_STEP
               /\ call'.op = "write_jsonl_record"
               /\ Len(log'.lines) = Len(log.lines) + 1]_vars

\* On the export page after a second submission: the log holds two entries,
\* and the record of the session is the one for site "b".
C23_Witness ==
    /\ mode = "new"
    /\ step = EXPORT_STEP
    /\ Len(log.lines) = 2
    /\ export[1].record.site = <<"b">>
    /\ json_loads(log.lines[1]).site = <<"a">>

\* C24: within Finish the summary image is written before the record is
\* appended: at every point of the branch, a kill between two statements
\* included, the entry this Finish has added is the last line of the log and
\* its image has been drawn and is in the image directory.
C24_EntryNeverBeforeItsImage ==
    (proc.pc \in {"finish", "killed"} /\ proc.appended) =>
        /\ proc.drawn
        /\ log.lines # <<>>
        /\ json_loads(log.lines[Len(log.lines)]).submission_id = submission_id(form)
        /\ json_loads(log.lines[Len(log.lines)]).summary_image \in images

\* The script was killed after the image was drawn and before the record
\* was appended: the image is there and no entry of the log names it.
C24_Witness ==
    /\ proc.pc = "killed"
    /\ proc.drawn
    /\ ~proc.appended
    /\ submission_id(form) \o PNG \in images
    /\ \A i \in 1..Len(log.lines) :
          json_loads(log.lines[i]).summary_image # submission_id(form) \o PNG
====
